---- MODULE Spec2Model ----
(***************************************************************************)
(* Email_sender: an HTTP endpoint (/send, /receive) that validates a       *)
(* {email, subject, body} message and relays it through an SMTP server.    *)
(* Model of src/main.go.                                                   *)
(*                                                                         *)
(* Strings.  A Go string is modelled as a sequence of runs <<cp, n>>:      *)
(* n >= 1 copies of the Unicode code point cp.  len(s) of Go is the number *)
(* of bytes of the UTF-8 encoding, computed by ByteLen; the number of      *)
(* characters is RuneCount.                                                *)
(***************************************************************************)
EXTENDS Integers, Sequences, FiniteSets, TLC

\* ------------------------------------------------------------------ bounds

\* Subjects and bodies are tried up to this many characters past the limits.
Slack == 2

\* Subjects and bodies are tried with up to this many multi-byte characters.
MaxMulti == 2

\* ------------------------------------------------------------- strings

\* Code points of the characters the inputs are built from.
CP == [a |-> 97, z |-> 122, A |-> 65, d7 |-> 55, dot |-> 46, us |-> 95,
       dash |-> 45, at |-> 64, sp |-> 32, eacute |-> 233, euro |-> 8364,
       emoji |-> 128512]

\* Bytes of the UTF-8 encoding of one code point (Go strings are UTF-8).
Utf8Len(cp) ==
    IF cp < 128 THEN 1
    ELSE IF cp < 2048 THEN 2
    ELSE IF cp < 65536 THEN 3
    ELSE 4

RECURSIVE ByteLen(_)
\* Go's len(s): the number of bytes of s.
ByteLen(s) ==
    IF s = <<>> THEN 0
    ELSE s[1][2] * Utf8Len(s[1][1]) + ByteLen(Tail(s))

RECURSIVE RuneCount(_)
\* The number of characters (code points) of s.
RuneCount(s) ==
    IF s = <<>> THEN 0
    ELSE s[1][2] + RuneCount(Tail(s))

RECURSIVE Expand(_)
\* The characters of s, one by one.
Expand(s) ==
    IF s = <<>> THEN <<>>
    ELSE [i \in 1..s[1][2] |-> s[1][1]] \o Expand(Tail(s))

\* n copies of the character cp ("" when n = 0).
Rep(cp, n) == IF n = 0 THEN <<>> ELSE << <<cp, n>> >>

\* The string of the given characters.
Str(cps) == [i \in 1..Len(cps) |-> <<cps[i], 1>>]

\* Go's s == "".
IsEmpty(s) == s = <<>>

\* ----------------------------------------------------------- validator

MaxSubjectLen == 25

MaxBodyLen == 1000

IsAlpha(cp) == (cp >= 97 /\ cp =< 122) \/ (cp >= 65 /\ cp =< 90)

IsDigit(cp) == cp >= 48 /\ cp =< 57

\* [a-zA-Z0-9._%+-]
InLocalClass(cp) == IsAlpha(cp) \/ IsDigit(cp) \/ cp \in {46, 95, 37, 43, 45}

\* [a-zA-Z0-9.-]
InDomainClass(cp) == IsAlpha(cp) \/ IsDigit(cp) \/ cp \in {46, 45}

\* regexp.MatchString(`^[a-zA-Z0-9._%+-]+@[a-zA-Z0-9.-]+\.[a-zA-Z]{2,}$`, e):
\* an '@' at i and a '.' at j split e into a non-empty local part, a
\* non-empty domain part and a suffix of at least two letters.
MatchEmail(e) ==
    LET t == Expand(e)
        n == Len(t)
    IN \E i \in 1..n : \E j \in 1..n :
          /\ t[i] = 64
          /\ t[j] = 46
          /\ i >= 2
          /\ j >= i + 2
          /\ n - j >= 2
          /\ \A k \in 1..(i - 1) : InLocalClass(t[k])
          /\ \A k \in (i + 1)..(j - 1) : InDomainClass(t[k])
          /\ \A k \in (j + 1)..n : IsAlpha(t[k])

Nil == "nil"

ErrRequired == "invalid message: email, subject, and body are required"

ErrEmailFormat == "invalid email format"

ErrSubjectTooLong == "invalid message: subject is too long"

ErrBodyTooLong == "invalid message: body is too long"

\* validateMessage with the address checked before the required fields.
validateMessage_FormatFirst(message) ==
    IF ~MatchEmail(message.Email) THEN ErrEmailFormat
    ELSE IF IsEmpty(message.Email) \/ IsEmpty(message.Subject) \/ IsEmpty(message.Body)
    THEN ErrRequired
    ELSE IF ByteLen(message.Subject) > MaxSubjectLen THEN ErrSubjectTooLong
    ELSE IF ByteLen(message.Body) > MaxBodyLen THEN ErrBodyTooLong
    ELSE Nil

\* validateMessage without the subject limit (lines 98-100 dropped).
validateMessage_NoSubjectLimit(message) ==
    IF IsEmpty(message.Email) \/ IsEmpty(message.Subject) \/ IsEmpty(message.Body)
    THEN ErrRequired
    ELSE IF ~MatchEmail(message.Email) THEN ErrEmailFormat
    ELSE IF ByteLen(message.Body) > MaxBodyLen THEN ErrBodyTooLong
    ELSE Nil

\* validateMessage: the error text, or Nil.
validateMessage(message) ==
    IF IsEmpty(message.Email) \/ IsEmpty(message.Subject) \/ IsEmpty(message.Body)
    THEN ErrRequired
    ELSE IF ~MatchEmail(message.Email) THEN ErrEmailFormat
    ELSE IF ByteLen(message.Subject) > MaxSubjectLen THEN ErrSubjectTooLong
    ELSE IF ByteLen(message.Body) > MaxBodyLen THEN ErrBodyTooLong
    ELSE Nil

\* ------------------------------------------------------------ requests

\* The requests in flight: each is served on its own goroutine.
Reqs == {"r1", "r2"}

NoReq == [path |-> "none"]

NoMessage == [Email |-> <<>>, Subject |-> <<>>, Body |-> <<>>]

\* A request body that json.Decoder rejects.
Malformed == [wellformed |-> FALSE, message |-> NoMessage]

\* A request body that decodes to message m (an absent field decodes to "").
Json(m) == [wellformed |-> TRUE, message |-> m]

Msg(e, s, b) == [Email |-> e, Subject |-> s, Body |-> b]

ValidEmail == Str(<<CP.a, CP.at, CP.a, CP.dot, CP.a, CP.a>>)

\* The messages the handlers are driven with: valid, a field missing, a bad
\* address, subject and body at and past the limits, a multi-byte subject.
HandlerMessages ==
    { Msg(ValidEmail, Rep(CP.a, 1), Rep(CP.a, 1)),
      Msg(ValidEmail, Rep(CP.a, MaxSubjectLen), Rep(CP.a, MaxBodyLen)),
      Msg(ValidEmail, Rep(CP.a, 1), <<>>),
      Msg(Str(<<CP.a, CP.at, CP.a>>), Rep(CP.a, 1), Rep(CP.a, 1)),
      Msg(ValidEmail, Rep(CP.a, MaxSubjectLen + 1), Rep(CP.a, 1)),
      Msg(ValidEmail, Rep(CP.a, 1), Rep(CP.a, MaxBodyLen + 1)),
      Msg(ValidEmail, Rep(CP.eacute, MaxSubjectLen), Rep(CP.a, 1)) }

HandlerBodies == {Malformed} \cup {Json(m) : m \in HandlerMessages}

Methods == {"GET", "POST"}

Paths == {"/send", "/receive"}

\* NewSMTPMessageService as main calls it.
NewSMTPMessageService(host, port, username, password, from) ==
    [smtpHost |-> host, smtpPort |-> port, username |-> username,
     password |-> password, from |-> from, timeout |-> 10]

MainService ==
    NewSMTPMessageService("smtp.gmail.com", 587, "SMTP_USERNAME",
                          "SMTP_PASSWORD", "SMTP_FROM")

VARIABLES
    svc,     \* the MessageService shared by all requests
    req,     \* req[r]: the request (path, method, body), NoReq before it arrives
    pc,      \* pc[r]: where the handler of r stands
    ctx,     \* ctx[r]: the context of Send: "none", "active", "expired", "cancelled"
    relay,   \* relay[r]: "responsive", or "silent" once the relay stops answering r
    conns,   \* conns[r]: the connections r dialed, each [open, cmds]
    sendErr, \* sendErr[r]: the error Send returned, Nil if none
    resp,    \* resp[r]: the responses written to r
    log      \* the process log

serverVars == <<svc, req, pc, ctx, relay, conns, sendErr, resp, log>>

\* The state of the form UI (App): the useState cells, the call of fetch that
\* is pending and the last outcome fetch delivered.
VARIABLES
    email,         \* the recipient field
    subject,       \* the subject field
    body,          \* the message field
    logs,          \* the history, newest first
    loading,       \* a send is in progress
    searchTerm,    \* the search field
    expandedLogId, \* the entry shown expanded, NoLogId if none
    fetching,      \* the {email, subject, body} onSend posted, NoMessage if none
    answer         \* what the pending fetch came back with, until onSend resumes

uiVars ==
    <<email, subject, body, logs, loading, searchTerm, expandedLogId,
      fetching, answer>>

vars == <<serverVars, uiVars>>

\* null of expandedLogId.  An entry's id (Date.now() at its creation) is
\* modelled by the entry's rank in the list counted from the oldest, which
\* like the id does not change when newer entries are put before it.
NoLogId == 0

\* App's useState initial values.
App ==
    /\ email = <<>>
    /\ subject = <<>>
    /\ body = <<>>
    /\ logs = <<>>
    /\ loading = FALSE
    /\ searchTerm = <<>>
    /\ expandedLogId = NoLogId
    /\ fetching = NoMessage
    /\ answer = [status |-> 0, body |-> <<>>]

Init ==
    /\ svc = MainService
    /\ req = [r \in Reqs |-> NoReq]
    /\ pc = [r \in Reqs |-> "idle"]
    /\ ctx = [r \in Reqs |-> "none"]
    /\ relay = [r \in Reqs |-> "responsive"]
    /\ conns = [r \in Reqs |-> <<>>]
    /\ sendErr = [r \in Reqs |-> Nil]
    /\ resp = [r \in Reqs |-> <<>>]
    /\ log = <<>>
    /\ App

\* A client issues request r.
Arrive(r) ==
    /\ pc[r] = "idle"
    /\ \E p \in Paths, m \in Methods, b \in HandlerBodies :
          req' = [req EXCEPT ![r] = [path |-> p, method |-> m, body |-> b]]
    /\ pc' = [pc EXCEPT ![r] = "arrived"]
    /\ UNCHANGED <<svc, ctx, relay, conns, sendErr, resp, log, uiVars>>

\* ------------------------------------------------------------ responses

\* writeJSON(w, status, {key: value})
JSONResponse(status, key, value) == [status |-> status, body |-> <<key, value>>]

\* w.WriteHeader(status) with no body
BareResponse(status) == [status |-> status, body |-> <<>>]

writeJSON(r, status, key, value) ==
    [resp EXCEPT ![r] = Append(@, JSONResponse(status, key, value))]

\* No response: the request goes on to the next stage.
NoResponse == [status |-> 0, body |-> <<>>]

\* Rejection with the body decoded before the method is looked at.
Rejection_DecodeFirst(q) ==
    IF ~q.body.wellformed THEN JSONResponse(400, "error", "invalid JSON body")
    ELSE IF q.method # "POST" THEN JSONResponse(405, "error", "method not allowed")
    ELSE IF validateMessage(q.body.message) # Nil
         THEN JSONResponse(400, "error", validateMessage(q.body.message))
    ELSE NoResponse

\* Lines 145-161: what SendMessageHandler answers before it calls Send;
\* NoResponse when the request passes the method check, the decoder and the
\* validator.
Rejection(q) ==
    IF q.method # "POST" THEN JSONResponse(405, "error", "method not allowed")
    ELSE IF ~q.body.wellformed THEN JSONResponse(400, "error", "invalid JSON body")
    ELSE IF validateMessage(q.body.message) # Nil
         THEN JSONResponse(400, "error", validateMessage(q.body.message))
    ELSE NoResponse

\* SendMessageHandler calling svc.Send before the validator has run.
SendMessageHandler_SendFirst(r) ==
    /\ pc[r] = "arrived"
    /\ req[r].path = "/send"
    /\ IF req[r].method # "POST" \/ ~req[r].body.wellformed
       THEN /\ resp' = [resp EXCEPT ![r] = Append(@, Rejection(req[r]))]
            /\ pc' = [pc EXCEPT ![r] = "done"]
            /\ UNCHANGED ctx
       ELSE /\ pc' = [pc EXCEPT ![r] = "dial"]
            /\ ctx' = [ctx EXCEPT ![r] = "active"]
            /\ UNCHANGED resp
    /\ UNCHANGED <<svc, req, relay, conns, sendErr, log, uiVars>>

\* SendMessageHandler up to the call of svc.Send, where WithTimeout starts
\* the deadline.
SendMessageHandler(r) ==
    /\ pc[r] = "arrived"
    /\ req[r].path = "/send"
    /\ IF Rejection(req[r]) # NoResponse
       THEN /\ resp' = [resp EXCEPT ![r] = Append(@, Rejection(req[r]))]
            /\ pc' = [pc EXCEPT ![r] = "done"]
            /\ UNCHANGED ctx
       ELSE /\ pc' = [pc EXCEPT ![r] = "dial"]
            /\ ctx' = [ctx EXCEPT ![r] = "active"]
            /\ UNCHANGED resp
    /\ UNCHANGED <<svc, req, relay, conns, sendErr, log, uiVars>>

\* ReceiveMessage running the validator on the decoded message.
ReceiveMessage_Validating(r) ==
    /\ pc[r] = "arrived"
    /\ req[r].path = "/receive"
    /\ IF req[r].method # "POST"
       THEN /\ resp' = [resp EXCEPT ![r] = Append(@, BareResponse(405))]
            /\ UNCHANGED log
       ELSE IF ~req[r].body.wellformed \/ validateMessage(req[r].body.message) # Nil
       THEN /\ resp' = [resp EXCEPT ![r] = Append(@, BareResponse(400))]
            /\ UNCHANGED log
       ELSE /\ log' = Append(log, <<"RECEIVED", req[r].body.message>>)
            /\ resp' = writeJSON(r, 200, "status", "received")
    /\ pc' = [pc EXCEPT ![r] = "done"]
    /\ UNCHANGED <<svc, req, ctx, relay, conns, sendErr, uiVars>>

\* ReceiveMessage, whole.
ReceiveMessage(r) ==
    /\ pc[r] = "arrived"
    /\ req[r].path = "/receive"
    /\ IF req[r].method # "POST"
       THEN /\ resp' = [resp EXCEPT ![r] = Append(@, BareResponse(405))]
            /\ UNCHANGED log
       ELSE IF ~req[r].body.wellformed
       THEN /\ resp' = [resp EXCEPT ![r] = Append(@, BareResponse(400))]
            /\ UNCHANGED log
       ELSE /\ log' = Append(log, <<"RECEIVED", req[r].body.message>>)
            /\ resp' = writeJSON(r, 200, "status", "received")
    /\ pc' = [pc EXCEPT ![r] = "done"]
    /\ UNCHANGED <<svc, req, ctx, relay, conns, sendErr, uiVars>>

\* ---------------------------------------------------------- mail relay

\* A connection as net.Dialer returns it: open, nothing sent yet.
NewConn == [open |-> TRUE, cmds |-> <<>>]

\* conn.Close(): every connection of the list is closed.
CloseAll(cs) == [i \in 1..Len(cs) |-> [cs[i] EXCEPT !.open = FALSE]]

\* sendGmail without its defer c.Close().
DeferredClose_Missing(cs) == cs

\* defer c.Close() (line 38), run when sendGmail returns.
DeferredClose(cs) == CloseAll(cs)

\* One SMTP exchange of request r on its connection: the command, its
\* argument and whether the relay accepted it.
Exchange(cs, r, step, arg, ok) ==
    [cs EXCEPT ![Len(cs)].cmds =
        Append(@, [step |-> step, by |-> r, arg |-> arg, ok |-> ok])]

\* The handler answering with the cause of the failure.
SendFailed_Leaky(r, cs, cause) ==
    /\ conns' = [conns EXCEPT ![r] = DeferredClose(cs)]
    /\ ctx' = [ctx EXCEPT ![r] = "cancelled"]
    /\ sendErr' = [sendErr EXCEPT ![r] = cause]
    /\ log' = Append(log, <<"SEND ERROR", cause>>)
    /\ resp' = writeJSON(r, 502, "error", cause)
    /\ pc' = [pc EXCEPT ![r] = "done"]

\* Send dialing again after a failure instead of returning it.
SendFailed_Retry(r, cs, cause) ==
    /\ conns' = [conns EXCEPT ![r] = DeferredClose(cs)]
    /\ pc' = [pc EXCEPT ![r] = "dial"]
    /\ UNCHANGED <<ctx, sendErr, resp, log>>

\* Lines 163-167 after Send returned err: sendGmail's deferred close and
\* Send's deferred cancel have run; the handler logs the cause and answers 502.
SendFailed(r, cs, cause) ==
    /\ conns' = [conns EXCEPT ![r] = DeferredClose(cs)]
    /\ ctx' = [ctx EXCEPT ![r] = "cancelled"]
    /\ sendErr' = [sendErr EXCEPT ![r] = cause]
    /\ log' = Append(log, <<"SEND ERROR", cause>>)
    /\ resp' = writeJSON(r, 502, "error", "failed to send email")
    /\ pc' = [pc EXCEPT ![r] = "done"]

\* The service keeping state across requests: once a request has been
\* served, a later send is answered 502 although the relay took it.
SendSucceeded_Sticky(r, cs) ==
    /\ conns' = [conns EXCEPT ![r] = DeferredClose(cs)]
    /\ ctx' = [ctx EXCEPT ![r] = "cancelled"]
    /\ resp' = IF \A q \in Reqs \ {r} : pc[q] # "done"
               THEN writeJSON(r, 200, "status", "sent")
               ELSE writeJSON(r, 502, "error", "failed to send email")
    /\ pc' = [pc EXCEPT ![r] = "done"]
    /\ UNCHANGED <<sendErr, log>>

\* Line 169 after Send returned nil.
SendSucceeded(r, cs) ==
    /\ conns' = [conns EXCEPT ![r] = DeferredClose(cs)]
    /\ ctx' = [ctx EXCEPT ![r] = "cancelled"]
    /\ resp' = writeJSON(r, 200, "status", "sent")
    /\ pc' = [pc EXCEPT ![r] = "done"]
    /\ UNCHANGED <<sendErr, log>>

\* A step that went well: sendGmail goes on to the next one.
Proceed(r, cs, next) ==
    /\ conns' = [conns EXCEPT ![r] = cs]
    /\ pc' = [pc EXCEPT ![r] = next]
    /\ UNCHANGED <<ctx, sendErr, resp, log>>

\* The timer of context.WithTimeout fires (s.timeout after Send began).
DeadlineExpires(r) ==
    /\ ctx[r] = "active"
    /\ ctx' = [ctx EXCEPT ![r] = "expired"]
    /\ UNCHANGED <<svc, req, pc, relay, conns, sendErr, resp, log, uiVars>>

\* The relay stops answering on the connection of r (or never answers the
\* dial): from here on no reply and no error arrives from it.
RelayStops(r) ==
    /\ pc[r] \in {"dial", "newclient", "starttls", "auth", "mail", "rcpt",
                  "data", "write", "closedata", "closefailed", "quit"}
    /\ relay[r] = "responsive"
    /\ relay' = [relay EXCEPT ![r] = "silent"]
    /\ UNCHANGED <<svc, req, pc, ctx, conns, sendErr, resp, log, uiVars>>

\* d.DialContext(ctx, "tcp", addr): connects, fails, or gives up when ctx is
\* done.
Dial(r) ==
    /\ pc[r] = "dial"
    /\ \/ /\ ctx[r] = "active"
          /\ relay[r] = "responsive"
          /\ \/ Proceed(r, Append(conns[r], NewConn), "newclient")
             \/ SendFailed(r, conns[r], "dial smtp")
       \/ /\ ctx[r] = "expired"
          /\ SendFailed(r, conns[r], "dial smtp")
    /\ UNCHANGED <<svc, req, relay, uiVars>>

\* smtp.NewClient(conn, host) reads the greeting; on an error net/smtp closes
\* the connection itself and sendGmail returns before its defer is set.
NewClient(r) ==
    /\ pc[r] = "newclient"
    /\ relay[r] = "responsive"
    /\ \/ Proceed(r, Exchange(conns[r], r, "GREETING", "", TRUE), "starttls")
       \/ SendFailed(r, CloseAll(Exchange(conns[r], r, "GREETING", "", FALSE)),
                     "new smtp client")
    /\ UNCHANGED <<svc, req, relay, uiVars>>

\* A call whose error is not looked at: sendGmail goes on either way.
Command_IgnoreError(r, at, step, arg, next, cause) ==
    /\ pc[r] = at
    /\ relay[r] = "responsive"
    /\ \E ok \in BOOLEAN : Proceed(r, Exchange(conns[r], r, step, arg, ok), next)
    /\ UNCHANGED <<svc, req, relay, uiVars>>

\* A call of the smtp.Client that waits for the relay's reply: on success
\* sendGmail goes on to `next`, on an error it returns `cause`.
Command(r, at, step, arg, next, cause) ==
    /\ pc[r] = at
    /\ relay[r] = "responsive"
    /\ \/ Proceed(r, Exchange(conns[r], r, step, arg, TRUE), next)
       \/ SendFailed(r, Exchange(conns[r], r, step, arg, FALSE), cause)
    /\ UNCHANGED <<svc, req, relay, uiVars>>

StartTLS(r) == Command(r, "starttls", "STARTTLS", "", "auth", "starttls")

Auth(r) == Command(r, "auth", "AUTH", svc.username, "mail", "auth")

Mail(r) == Command(r, "mail", "MAIL", svc.from, "rcpt", "mail from")

Rcpt(r) == Command(r, "rcpt", "RCPT", req[r].body.message.Email, "data", "rcpt to")

Data(r) == Command(r, "data", "DATA", "", "write", "data")

\* w.Write(msg): a local write, no reply is awaited; on an error the writer
\* is closed (line 74) before sendGmail returns.
Write(r) ==
    /\ pc[r] = "write"
    /\ \/ Proceed(r, Exchange(conns[r], r, "WRITE", "", TRUE), "closedata")
       \/ Proceed(r, Exchange(conns[r], r, "WRITE", "", FALSE), "closefailed")
    /\ UNCHANGED <<svc, req, relay, uiVars>>

\* `_ = w.Close()` after a failed write: the writer carries the write error,
\* so the end of the message does not reach the relay and no acceptance can
\* come back; the reply is awaited and the outcome ignored.
CloseFailedWrite(r) ==
    /\ pc[r] = "closefailed"
    /\ relay[r] = "responsive"
    /\ SendFailed(r, Exchange(conns[r], r, "END", "", FALSE), "write")
    /\ UNCHANGED <<svc, req, relay, uiVars>>

\* w.Close(): ends the message and awaits the relay's verdict.
CloseData(r) == Command(r, "closedata", "END", "", "quit", "close data")

\* c.Quit(): its error is returned as it is.
Quit(r) ==
    /\ pc[r] = "quit"
    /\ relay[r] = "responsive"
    /\ \/ SendSucceeded(r, Exchange(conns[r], r, "QUIT", "", TRUE))
       \/ SendFailed(r, Exchange(conns[r], r, "QUIT", "", FALSE), "quit")
    /\ UNCHANGED <<svc, req, relay, uiVars>>

\* sendGmail, one step of it.
sendGmail(r) ==
    \/ Dial(r)
    \/ NewClient(r)
    \/ StartTLS(r)
    \/ Auth(r)
    \/ Mail(r)
    \/ Rcpt(r)
    \/ Data(r)
    \/ Write(r)
    \/ CloseFailedWrite(r)
    \/ CloseData(r)
    \/ Quit(r)

\* One step of the server on request r.
Serve(r) == SendMessageHandler(r) \/ ReceiveMessage(r) \/ sendGmail(r)

Next ==
    \E r \in Reqs :
        \/ Arrive(r)
        \/ Serve(r)
        \/ DeadlineExpires(r)
        \/ RelayStops(r)

Spec == Init /\ [][Next]_vars

\* The scheduler runs every goroutine that can take a step, and the timer of
\* an active context fires.
FairSpec ==
    /\ Spec
    /\ \A r \in Reqs : WF_vars(Serve(r)) /\ WF_vars(DeadlineExpires(r))

\* -------------------------------------------------- validator inputs

\* Addresses: one that matches, and ones that break each part of the pattern.
EmailInputs ==
    { <<>>,
      ValidEmail,
      Str(<<CP.A, CP.d7, CP.us, CP.dot, CP.dash, CP.at, CP.z, CP.dash, CP.d7,
            CP.dot, CP.a, CP.dot, CP.z, CP.A>>),
      Str(<<CP.a, CP.at, CP.a, CP.dot, CP.a>>),
      Str(<<CP.a, CP.a, CP.dot, CP.a, CP.a>>),
      Str(<<CP.at, CP.a, CP.dot, CP.a, CP.a>>),
      Str(<<CP.a, CP.at, CP.dot, CP.a, CP.a>>),
      Str(<<CP.a, CP.at, CP.a, CP.dot, CP.a, CP.d7>>),
      Str(<<CP.a, CP.sp, CP.at, CP.a, CP.dot, CP.a, CP.a>>),
      Str(<<CP.eacute, CP.at, CP.a, CP.dot, CP.a, CP.a>>),
      Str(<<CP.a, CP.at, CP.a, CP.at, CP.a, CP.dot, CP.a, CP.a>>),
      Str(<<CP.a, CP.at, CP.a, CP.us, CP.dot, CP.a, CP.a>>) }

\* Strings of n one-byte characters followed by k multi-byte ones.
Mixed(ns, ks) ==
    {Rep(CP.a, n) \o Rep(c, k) :
        n \in ns, k \in ks, c \in {CP.eacute, CP.emoji}}

SubjectInputs == Mixed(0..(MaxSubjectLen + Slack), 0..MaxMulti)

BodyInputs ==
    Mixed({0} \cup ((MaxBodyLen - Slack - MaxMulti)..(MaxBodyLen + Slack)),
          0..MaxMulti)

ValidatorInputs ==
    {Msg(e, s, b) : e \in EmailInputs, s \in SubjectInputs, b \in BodyInputs}

\* One POST /send with a well-formed body has arrived.
InitValidate ==
    /\ svc = MainService
    /\ \E m \in ValidatorInputs :
          req = [r \in Reqs |->
                   IF r = "r1"
                   THEN [path |-> "/send", method |-> "POST", body |-> Json(m)]
                   ELSE NoReq]
    /\ pc = [r \in Reqs |-> IF r = "r1" THEN "arrived" ELSE "idle"]
    /\ ctx = [r \in Reqs |-> "none"]
    /\ relay = [r \in Reqs |-> "responsive"]
    /\ conns = [r \in Reqs |-> <<>>]
    /\ sendErr = [r \in Reqs |-> Nil]
    /\ resp = [r \in Reqs |-> <<>>]
    /\ log = <<>>
    /\ App

\* The handler decodes and validates it.
NextValidate == SendMessageHandler("r1")

SpecValidate == InitValidate /\ [][NextValidate]_vars

\* --------------------------------------------------------------- form UI

\* The history is followed up to this many entries.
MaxLogs == 2

\* maxLength / slice(0, 25) of the subject field.
UISubjectMax == 25

\* maxLength / slice(0, 1000) of the message field.
UIBodyMax == 1000

\* UTF-16 code units of one code point (JavaScript strings are UTF-16).
Utf16Len(cp) == IF cp < 65536 THEN 1 ELSE 2

RECURSIVE Slice(_, _)
\* JavaScript's s.slice(0, n): the first n code units of s; a character of
\* two units cut in the middle leaves its high surrogate.
Slice(s, n) ==
    IF s = <<>> \/ n = 0 THEN <<>>
    ELSE LET cp == s[1][1]
             k == s[1][2]
             u == Utf16Len(cp)
         IN IF k * u =< n
            THEN <<s[1]>> \o Slice(Tail(s), n - k * u)
            ELSE Rep(cp, n \div u)
                 \o (IF n % u = 1
                     THEN Rep(55296 + ((cp - 65536) \div 1024), 1)
                     ELSE <<>>)

\* toLowerCase on the characters the inputs are built from.
ToLower(cp) == IF cp >= 65 /\ cp =< 90 THEN cp + 32 ELSE cp

\* hay.toLowerCase().includes(needle.toLowerCase())
Includes(hay, needle) ==
    LET h == Expand(hay)
        n == Expand(needle)
    IN \E i \in 0..(Len(h) - Len(n)) :
          \A j \in 1..Len(n) : ToLower(h[i + j]) = ToLower(n[j])

\* The filter of filteredLogs.
Matches(entry, term) ==
    \/ Includes(entry.email, term)
    \/ Includes(entry.subject, term)
    \/ Includes(entry.body, term)

\* What the user types into the fields.
TypedEmails == {<<>>, ValidEmail, Str(<<CP.a, CP.at, CP.a>>)}

TypedSubjects == {<<>>, Rep(CP.a, UISubjectMax + 1)}

TypedBodies == {<<>>, Rep(CP.a, 1)}

TypedSearches == {<<>>, Rep(CP.A, 1)}

\* An EmailLog without its id and timestamp, which are readings of the clock.
EmailLog(e, s, b, status, message) ==
    [email |-> e, subject |-> s, body |-> b, status |-> status,
     message |-> message]

\* setLogs putting the new entry in place of the history.
Prepend_Replacing(entry, prev) == <<entry>>

\* setLogs((prev) => [entry, ...prev])
Prepend(entry, prev) == <<entry>> \o prev

\* fetch rejected: no response, error.message is the browser's text.
NetworkFailure == [status |-> -1, body |-> <<"error", "Failed to fetch">>]

\* The responses POST /send can give to message m: the handler's rejection,
\* or what it answers after Send returned (lines 163-169).
ServerAnswers(m) ==
    LET q == [path |-> "/send", method |-> "POST", body |-> Json(m)]
    IN IF Rejection(q) # NoResponse
       THEN {Rejection(q)}
       ELSE {JSONResponse(502, "error", "failed to send email"),
             JSONResponse(200, "status", "sent")}

\* The entry onSend records for the parsed response: every response counted
\* as a success.
ResultEntry_AlwaysSuccess(call, data) ==
    EmailLog(call.Email, call.Subject, call.Body, "success", data[2])

\* The entry onSend records for the parsed response (lines 270-295).
ResultEntry(call, data) ==
    IF data[1] = "error"
    THEN EmailLog(call.Email, call.Subject, call.Body, "error", data[2])
    ELSE EmailLog(call.Email, call.Subject, call.Body, "success", data[2])

\* onChange of the recipient field (disabled while loading).
ChangeEmail ==
    /\ ~loading
    /\ \E v \in TypedEmails : email' = v
    /\ UNCHANGED <<subject, body, logs, loading, searchTerm, expandedLogId,
                   fetching, answer, serverVars>>

\* onChange of the subject field.
ChangeSubject ==
    /\ ~loading
    /\ \E v \in TypedSubjects : subject' = Slice(v, UISubjectMax)
    /\ UNCHANGED <<email, body, logs, loading, searchTerm, expandedLogId,
                   fetching, answer, serverVars>>

\* onChange of the message field.
ChangeBody ==
    /\ ~loading
    /\ \E v \in TypedBodies : body' = Slice(v, UIBodyMax)
    /\ UNCHANGED <<email, subject, logs, loading, searchTerm, expandedLogId,
                   fetching, answer, serverVars>>

\* onChange of the search field, shown when the history is not empty.
ChangeSearch ==
    /\ logs # <<>>
    /\ \E v \in TypedSearches : searchTerm' = v
    /\ UNCHANGED <<email, subject, body, logs, loading, expandedLogId,
                   fetching, answer, serverVars>>

\* filteredLogs: the ids of the entries the search shows.
filteredLogs ==
    {Len(logs) - i + 1 : i \in {j \in 1..Len(logs) : Matches(logs[j], searchTerm)}}

\* toggleExpand(log.id), a click on an entry the filter shows.
toggleExpand ==
    /\ \E id \in filteredLogs :
          expandedLogId' = IF expandedLogId = id THEN NoLogId ELSE id
    /\ UNCHANGED <<email, subject, body, logs, loading, searchTerm,
                   fetching, answer, serverVars>>

\* clearLogs, the Clear button.
clearLogs ==
    /\ logs # <<>>
    /\ logs' = <<>>
    /\ searchTerm' = <<>>
    /\ UNCHANGED <<email, subject, body, loading, expandedLogId,
                   fetching, answer, serverVars>>

\* exportLogs, the Export button: a download, no state of App changes.
exportLogs ==
    /\ logs # <<>>
    /\ UNCHANGED vars

\* onSend up to its await (lines 242-267); the button is disabled while
\* loading.
onSend ==
    /\ ~loading
    /\ Len(logs) < MaxLogs
    /\ IF IsEmpty(email) \/ IsEmpty(subject) \/ IsEmpty(body)
       THEN /\ logs' = Prepend(EmailLog(email, subject, body, "error",
                                        "All fields are required"), logs)
            /\ UNCHANGED <<loading, fetching>>
       ELSE /\ loading' = TRUE
            /\ fetching' = Msg(email, subject, body)
            /\ UNCHANGED logs
    /\ UNCHANGED <<email, subject, body, searchTerm, expandedLogId, answer,
                   serverVars>>

\* Nothing has come back yet.
NoAnswer == [status |-> 0, body |-> <<>>]

\* The fetch of onSend settles: the endpoint's response arrives, or the
\* request fails on the network.
fetchSettles ==
    /\ fetching # NoMessage
    /\ answer = NoAnswer
    /\ answer' \in ServerAnswers(fetching) \cup {NetworkFailure}
    /\ UNCHANGED <<email, subject, body, logs, loading, searchTerm,
                   expandedLogId, fetching, serverVars>>

\* onSendRejected without the finally block.
onSendRejected_NoFinally ==
    /\ fetching # NoMessage
    /\ answer = NetworkFailure
    /\ logs' = Prepend(EmailLog(fetching.Email, fetching.Subject, fetching.Body,
                                "error", answer.body[2]), logs)
    /\ fetching' = NoMessage
    /\ answer' = NoAnswer
    /\ UNCHANGED <<email, subject, body, loading, searchTerm, expandedLogId,
                   serverVars>>

\* onSend resuming after fetch and res.json() delivered a response (lines
\* 268-299, 313-315).
onSendResolved ==
    /\ fetching # NoMessage
    /\ answer \notin {NoAnswer, NetworkFailure}
    /\ logs' = Prepend(ResultEntry(fetching, answer.body), logs)
    /\ IF ResultEntry(fetching, answer.body).status = "success"
       THEN /\ email' = <<>>
            /\ subject' = <<>>
            /\ body' = <<>>
       ELSE UNCHANGED <<email, subject, body>>
    /\ loading' = FALSE
    /\ fetching' = NoMessage
    /\ answer' = NoAnswer
    /\ UNCHANGED <<searchTerm, expandedLogId, serverVars>>

\* onSend resuming after fetch threw (lines 300-315).
onSendRejected ==
    /\ fetching # NoMessage
    /\ answer = NetworkFailure
    /\ logs' = Prepend(EmailLog(fetching.Email, fetching.Subject, fetching.Body,
                                "error", answer.body[2]), logs)
    /\ loading' = FALSE
    /\ fetching' = NoMessage
    /\ answer' = NoAnswer
    /\ UNCHANGED <<email, subject, body, searchTerm, expandedLogId, serverVars>>

NextUI ==
    \/ ChangeEmail
    \/ ChangeSubject
    \/ ChangeBody
    \/ ChangeSearch
    \/ toggleExpand
    \/ clearLogs
    \/ exportLogs
    \/ onSend
    \/ fetchSettles
    \/ onSendResolved
    \/ onSendRejected

\* The form UI against the endpoint.
SpecUI == Init /\ [][NextUI]_vars

\* ------------------------------------------------------------- claims

\* The /send requests whose handler has returned.
Answered(r) == req[r] # NoReq /\ req[r].path = "/send" /\ pc[r] = "done"

\* The /send requests that got past decoding: POST with a well-formed body,
\* the validator has run.
Validated(r) ==
    /\ req[r] # NoReq
    /\ req[r].path = "/send"
    /\ req[r].method = "POST"
    /\ req[r].body.wellformed
    /\ pc[r] \notin {"idle", "arrived"}

\* The steps of a relay transaction in which everything went well.
FullTransaction ==
    <<"GREETING", "STARTTLS", "AUTH", "MAIL", "RCPT", "DATA", "WRITE", "END", "QUIT">>

\* Request r dialed one connection and every step on it succeeded.
RelaySucceeded(r) ==
    /\ Len(conns[r]) = 1
    /\ Len(conns[r][1].cmds) = Len(FullTransaction)
    /\ \A i \in 1..Len(FullTransaction) :
          /\ conns[r][1].cmds[i].step = FullTransaction[i]
          /\ conns[r][1].cmds[i].ok

\* What the contract says /send answers to request q when the relay
\* transaction succeeded or not.
ContractResponse(q, relayOk) ==
    IF q.method # "POST" THEN JSONResponse(405, "error", "method not allowed")
    ELSE IF ~q.body.wellformed THEN JSONResponse(400, "error", "invalid JSON body")
    ELSE IF validateMessage(q.body.message) # Nil
         THEN JSONResponse(400, "error", validateMessage(q.body.message))
    ELSE IF ~relayOk THEN JSONResponse(502, "error", "failed to send email")
    ELSE JSONResponse(200, "status", "sent")

\* C1: a /send request whose handler returned got exactly one response, the
\* one of the first failing stage in the order method, JSON, validation,
\* relay, and 200 "sent" exactly when the input is valid and every relay step
\* succeeded; a handler still running has written nothing.
C1_OneResponseByFirstFailingStage ==
    \A r \in Reqs :
        /\ (req[r] # NoReq /\ req[r].path = "/send" /\ pc[r] # "done")
              => resp[r] = <<>>
        /\ Answered(r) =>
              /\ resp[r] = <<ContractResponse(req[r], RelaySucceeded(r))>>
              /\ (resp[r][1] = JSONResponse(200, "status", "sent")) <=>
                    /\ req[r].method = "POST"
                    /\ req[r].body.wellformed
                    /\ validateMessage(req[r].body.message) = Nil
                    /\ RelaySucceeded(r)

\* C1 witness: one request answered 200 after a full transaction, the other
\* answered 502 after a failed relay step.
C1_Witness ==
    /\ Answered("r1") /\ resp["r1"] = <<JSONResponse(200, "status", "sent")>>
    /\ Answered("r2") /\ resp["r2"] = <<JSONResponse(502, "error", "failed to send email")>>
    /\ conns["r2"] # <<>>

\* What the contract calls an invalid message, in characters.
ContractInvalid(m) ==
    \/ RuneCount(m.Email) = 0
    \/ RuneCount(m.Subject) = 0
    \/ RuneCount(m.Body) = 0
    \/ ~MatchEmail(m.Email)
    \/ RuneCount(m.Subject) > MaxSubjectLen
    \/ RuneCount(m.Body) > MaxBodyLen

\* C2: every message with an empty field, an address that does not match the
\* pattern, a subject of more than 25 characters or a body of more than 1000
\* characters is refused by validateMessage, and /send answers 400.
C2_InvalidRejected ==
    \A r \in Reqs :
        (Validated(r) /\ ContractInvalid(req[r].body.message)) =>
            /\ validateMessage(req[r].body.message) # Nil
            /\ pc[r] = "done"
            /\ Len(resp[r]) = 1
            /\ resp[r][1].status = 400

\* C2 witness: a message whose only fault is a subject of 26 characters was
\* answered 400.
C2_Witness ==
    /\ Validated("r1")
    /\ MatchEmail(req["r1"].body.message.Email)
    /\ RuneCount(req["r1"].body.message.Subject) = MaxSubjectLen + 1
    /\ RuneCount(req["r1"].body.message.Body) = MaxBodyLen
    /\ resp["r1"] = <<JSONResponse(400, "error", ErrSubjectTooLong)>>

\* C3: every message with three non-empty fields, a matching address, a
\* subject of at most 25 characters and a body of at most 1000 characters is
\* accepted by validateMessage, the limits counting characters.
C3_ValidAccepted ==
    \A r \in Reqs :
        (Validated(r) /\ ~ContractInvalid(req[r].body.message)) =>
            /\ validateMessage(req[r].body.message) = Nil
            /\ pc[r] = "dial"

\* The commands request r sent on its i-th connection.
Cmds(r, i) == conns[r][i].cmds

\* s is a prefix of t.
IsPrefix(s, t) == Len(s) =< Len(t) /\ \A i \in 1..Len(s) : s[i] = t[i]

\* The step names of a command list.
Steps(cmds) == [i \in 1..Len(cmds) |-> cmds[i].step]

C5_DeadlineBoundsSend ==
    \A r \in Reqs : (ctx[r] = "expired") ~> (pc[r] = "done")

\* C6: a /send request refused for its method, its JSON or by the validator
\* never opens a connection nor starts a deadline; a connection exists only
\* for a POST with a well-formed, valid message.
C6_ValidatorBeforeNetwork ==
    \A r \in Reqs :
        (req[r] # NoReq /\ req[r].path = "/send") =>
            /\ (\/ req[r].method # "POST"
                \/ ~req[r].body.wellformed
                \/ validateMessage(req[r].body.message) # Nil)
                  => (conns[r] = <<>> /\ ctx[r] = "none" /\ sendErr[r] = Nil)
            /\ pc[r] = "arrived" => conns[r] = <<>>

\* C6 witness: r1 was refused by the validator with no connection while r2
\* is in the middle of a relay transaction.
C6_Witness ==
    /\ Answered("r1")
    /\ resp["r1"] = <<JSONResponse(400, "error", ErrBodyTooLong)>>
    /\ conns["r1"] = <<>>
    /\ pc["r2"] = "rcpt"

\* C7: any two relay failures get the same response, 502 "failed to send
\* email", whatever the cause, and each cause is in the log.
C7_RelayFailureOpaque ==
    \A r1, r2 \in Reqs :
        (sendErr[r1] # Nil /\ sendErr[r2] # Nil) =>
            /\ resp[r1] = resp[r2]
            /\ resp[r1] = <<JSONResponse(502, "error", "failed to send email")>>
            /\ \E i \in 1..Len(log) : log[i] = <<"SEND ERROR", sendErr[r1]>>

\* C7 witness: two failures with different causes, one at the dial and one
\* at QUIT.
C7_Witness ==
    /\ sendErr["r1"] = "dial smtp"
    /\ sendErr["r2"] = "quit"

\* C8: when the handler of a request has returned, every connection the
\* request opened is closed.
C8_ConnectionsReleased ==
    \A r \in Reqs :
        pc[r] = "done" => \A i \in 1..Len(conns[r]) : ~conns[r][i].open

\* C8 witness: r1 returned with success and r2 with an error after STARTTLS,
\* both having opened a connection.
C8_Witness ==
    /\ pc["r1"] = "done" /\ RelaySucceeded("r1")
    /\ pc["r2"] = "done" /\ sendErr["r2"] = "starttls" /\ Len(conns["r2"]) = 1

\* The commands of a list with the given step name.
Count(cmds, step) == Cardinality({k \in 1..Len(cmds) : cmds[k].step = step})

\* C9: a request opens at most one connection, attempts each step at most
\* once on it, names one recipient, the email field of the request, hands
\* over at most one message, and only the request that dialed a connection
\* sends on it.
C9_NoRetryNoReuse ==
    \A r \in Reqs :
        /\ Len(conns[r]) =< 1
        /\ \A i \in 1..Len(conns[r]) :
              /\ \A k \in 1..Len(Cmds(r, i)) :
                    /\ Cmds(r, i)[k].by = r
                    /\ Count(Cmds(r, i), Cmds(r, i)[k].step) = 1
                    /\ Cmds(r, i)[k].step = "RCPT" =>
                          Cmds(r, i)[k].arg = req[r].body.message.Email

\* C9 witness: both requests failed at some step and neither dialed again.
C9_Witness ==
    /\ pc["r1"] = "done" /\ sendErr["r1"] = "rcpt to" /\ Len(conns["r1"]) = 1
    /\ pc["r2"] = "done" /\ sendErr["r2"] = "new smtp client" /\ Len(conns["r2"]) = 1

\* What the relay did on the connections of r: the outcome of each step.
RelayBehaviour(r) ==
    [i \in 1..Len(conns[r]) |->
        [k \in 1..Len(Cmds(r, i)) |-> <<Cmds(r, i)[k].step, Cmds(r, i)[k].ok>>]]

\* C10: the service configuration never changes, and two requests with the
\* same path, method and payload on which the relay behaved the same get the
\* same response, whatever else was served meanwhile.
C10_RequestsIndependent ==
    /\ svc = MainService
    /\ \A r1, r2 \in Reqs :
          (/\ pc[r1] = "done"
           /\ pc[r2] = "done"
           /\ req[r1] = req[r2]
           /\ RelayBehaviour(r1) = RelayBehaviour(r2)) => resp[r1] = resp[r2]

\* C10 witness: r1 and r2 are the same valid request, both went through the
\* whole relay transaction, and the log holds lines of other origin.
C10_Witness ==
    /\ Answered("r1")
    /\ Answered("r2")
    /\ req["r1"] = req["r2"]
    /\ RelaySucceeded("r1")
    /\ RelaySucceeded("r2")

\* C11: a POST /receive is answered 200 "received" whenever its body is
\* well-formed JSON, whether or not the validator would accept the message,
\* and 400 when the body is malformed; a /receive request never opens a
\* connection to the relay nor starts a deadline.
C11_ReceiveEchoes ==
    \A r \in Reqs :
        (req[r] # NoReq /\ req[r].path = "/receive") =>
            /\ conns[r] = <<>>
            /\ ctx[r] = "none"
            /\ sendErr[r] = Nil
            /\ (pc[r] = "done" /\ req[r].method = "POST") =>
                  /\ Len(resp[r]) = 1
                  /\ req[r].body.wellformed =>
                        resp[r][1] = JSONResponse(200, "status", "received")
                  /\ ~req[r].body.wellformed => resp[r][1].status = 400

\* C11 witness: a POST /receive whose message the validator refuses (subject
\* too long) was answered 200 "received", another with a malformed body 400.
C11_Witness ==
    /\ req["r1"] # NoReq /\ req["r1"].path = "/receive" /\ req["r1"].method = "POST"
    /\ req["r1"].body.wellformed
    /\ validateMessage(req["r1"].body.message) = ErrSubjectTooLong
    /\ resp["r1"] = <<JSONResponse(200, "status", "received")>>
    /\ req["r2"] # NoReq /\ req["r2"].path = "/receive" /\ req["r2"].method = "POST"
    /\ ~req["r2"].body.wellformed
    /\ resp["r2"] = <<BareResponse(400)>>

\* The relay accepted a message of request r: the end of the DATA phase was
\* acknowledged on one of its connections.
MessageAccepted(r) ==
    \E i \in 1..Len(conns[r]) : \E k \in 1..Len(Cmds(r, i)) :
        Cmds(r, i)[k].step = "END" /\ Cmds(r, i)[k].ok

\* C14: whenever /send answers 502 "failed to send email", the relay has not
\* accepted the message: the DATA phase did not complete successfully.
C14_FailureMeansNotAccepted ==
    \A r \in Reqs :
        resp[r] = <<JSONResponse(502, "error", "failed to send email")>>
            => ~MessageAccepted(r)

\* The validation rules as the contract words them, in characters.
RuleRequired(m) ==
    RuneCount(m.Email) = 0 \/ RuneCount(m.Subject) = 0 \/ RuneCount(m.Body) = 0

RuleEmail(m) == ~MatchEmail(m.Email)

RuleSubject(m) == RuneCount(m.Subject) > MaxSubjectLen

RuleBody(m) == RuneCount(m.Body) > MaxBodyLen

\* How many of the four rules m violates.
Violations(m) ==
    (IF RuleRequired(m) THEN 1 ELSE 0) + (IF RuleEmail(m) THEN 1 ELSE 0)
    + (IF RuleSubject(m) THEN 1 ELSE 0) + (IF RuleBody(m) THEN 1 ELSE 0)

\* The error of the first violated rule in the order required, email,
\* subject, body.
FirstViolation(m) ==
    IF RuleRequired(m) THEN ErrRequired
    ELSE IF RuleEmail(m) THEN ErrEmailFormat
    ELSE IF RuleSubject(m) THEN ErrSubjectTooLong
    ELSE IF RuleBody(m) THEN ErrBodyTooLong
    ELSE Nil

\* C16: a message that violates several rules at once gets exactly one
\* error, that of the first violated rule in the order required, email
\* format, subject, body; an empty field always gives the "required" error,
\* and "body is too long" is reported only when no field is empty, the
\* address matches and the subject is within its limit.
C16_FirstErrorInFixedOrder ==
    \A r \in Reqs :
        Validated(r) =>
            LET m == req[r].body.message
                reported == IF pc[r] = "done" /\ Len(resp[r]) = 1
                                  /\ resp[r][1].status = 400
                            THEN resp[r][1].body[2]
                            ELSE Nil
            IN /\ Len(resp[r]) =< 1
               /\ Violations(m) >= 2 => reported = FirstViolation(m)
               /\ RuleRequired(m) => reported = ErrRequired
               /\ reported = ErrBodyTooLong =>
                     ~RuleRequired(m) /\ ~RuleEmail(m) /\ ~RuleSubject(m)

\* C16 witness: a message with a bad address, a subject and a body both too
\* long was answered with the address error alone.
C16_Witness ==
    /\ Validated("r1")
    /\ ~RuleRequired(req["r1"].body.message)
    /\ RuleEmail(req["r1"].body.message)
    /\ RuleSubject(req["r1"].body.message)
    /\ RuleBody(req["r1"].body.message)
    /\ resp["r1"] = <<JSONResponse(400, "error", ErrEmailFormat)>>

\* t ends with s: s is what t held before entries were put in front of it.
EndsWith(t, s) ==
    /\ Len(s) =< Len(t)
    /\ \A i \in 1..Len(s) : t[Len(t) - Len(s) + i] = s[i]

\* C12: the history is append-only: no UI action removes or changes an entry
\* once recorded, the list only grows.
C12_HistoryAppendOnly == [][EndsWith(logs', logs)]_vars

\* C12, amended: every UI action other than Clear keeps the recorded entries
\* unchanged and in place, the list only growing at its head; Clear removes
\* all of them at once (and empties the search field).
C12_AppendOnlyUntilCleared ==
    [][\/ EndsWith(logs', logs)
       \/ (logs # <<>> /\ logs' = <<>> /\ searchTerm' = <<>>)]_vars

\* C12 witness: the history is empty although an entry had been recorded and
\* expanded, and a send is in progress: Clear emptied the list.
C12_Witness ==
    /\ logs = <<>>
    /\ expandedLogId # NoLogId
    /\ loading

\* The step in which onSend resumes after its fetch settled.
Resumes == fetching # NoMessage /\ fetching' = NoMessage

\* The step in which onSend returns for an empty field.
ReturnsEarly == fetching = NoMessage /\ fetching' = NoMessage /\ Len(logs') > Len(logs)

\* C13: the entry recorded when a send completes has status "success"
\* exactly when /send answered 200 {"status":"sent"}; a 400, 405 or 502
\* answer is recorded as "error" with the server's error text, a network
\* failure as "error"; the entry holds the fields that were sent, and the
\* form fields are emptied after a success and only then.
C13_ResponseRecordedFaithfully ==
    [][/\ Resumes =>
             LET e == logs'[1]
             IN /\ Len(logs') = Len(logs) + 1
                /\ e.email = fetching.Email
                /\ e.subject = fetching.Subject
                /\ e.body = fetching.Body
                /\ e.status \in {"success", "error"}
                /\ (e.status = "success") <=>
                      (answer = JSONResponse(200, "status", "sent"))
                /\ e.status = "success" => e.message = "sent"
                /\ answer.status \in {400, 405, 502} =>
                      (e.status = "error" /\ e.message = answer.body[2])
                /\ answer = NetworkFailure => e.status = "error"
                /\ e.status = "success" =>
                      (email' = <<>> /\ subject' = <<>> /\ body' = <<>>)
                /\ e.status = "error" =>
                      (email' = email /\ subject' = subject /\ body' = body)
       /\ ReturnsEarly =>
             /\ logs'[1].status = "error"
             /\ email' = email /\ subject' = subject /\ body' = body
      ]_vars

\* C13 witness: a send answered 400 "invalid email format" was recorded as
\* an error with that text, the next one answered 200 as a success, and the
\* form is empty.
C13_Witness ==
    /\ Len(logs) = 2
    /\ logs[2].status = "error" /\ logs[2].message = ErrEmailFormat
    /\ logs[1].status = "success" /\ logs[1].message = "sent"
    /\ email = <<>> /\ subject = <<>> /\ body = <<>>
    /\ ~loading

\* C15: every onSend puts exactly one entry at the head of the history and
\* leaves loading false when it completes, after a response as after a
\* network failure; with an empty field it records "All fields are required"
\* at once, calls nothing and never sets loading; loading is set exactly
\* while a call is pending, during which nothing is recorded.
C15_OneEntryPerSend ==
    [][/\ Resumes =>
             /\ Len(logs') = Len(logs) + 1
             /\ Tail(logs') = logs
             /\ loading
             /\ ~loading'
       /\ ReturnsEarly =>
             /\ Len(logs') = Len(logs) + 1
             /\ Tail(logs') = logs
             /\ IsEmpty(email) \/ IsEmpty(subject) \/ IsEmpty(body)
             /\ logs'[1].status = "error"
             /\ logs'[1].message = "All fields are required"
             /\ ~loading /\ ~loading'
             /\ answer' = answer
       /\ (fetching = NoMessage /\ fetching' # NoMessage) =>
             /\ ~IsEmpty(email) /\ ~IsEmpty(subject) /\ ~IsEmpty(body)
             /\ ~loading /\ loading'
             /\ logs' = logs
       /\ loading' <=> (fetching' # NoMessage)
       /\ (~Resumes /\ ~ReturnsEarly) => Len(logs') =< Len(logs)
      ]_vars

\* C15 witness: a successful send and then a send with the form empty each
\* put one entry at the head, and loading is false.
C15_Witness ==
    /\ Len(logs) = 2
    /\ logs[1].status = "error" /\ logs[1].message = "All fields are required"
    /\ logs[2].status = "success"
    /\ ~loading
====
